---- MODULE Spec2Model ----
(***************************************************************************)
(* Model of the two CI utilities of shared_workflows:                      *)
(*   .github/actions/comment-pr/comment_pr.py     (PR comment upserter)    *)
(*   .github/actions/sarif-report/sarif_report.py (SARIF -> HTML report)   *)
(*                                                                         *)
(* Text is modelled as a sequence of tokens (each token a string) where    *)
(* the code searches or trims it, and as a TLA+ string where the code only *)
(* concatenates and compares it.                                           *)
(***************************************************************************)
EXTENDS Integers, Sequences, FiniteSets, TLC

VARIABLES
    \* ---- comment_pr.py ----
    comments,     \* the issue comments of the pull request, in listing order
    nextId,       \* id the remote gives to the next created comment
    before,       \* the comments as they were when the invocation started
    pc,           \* position of the current comment_pr invocation
    args,         \* command line and environment of the current invocation
    pr_number,    \* main's pr_number: <<>> is None, <<n>> is the int n
    final_body,   \* main's final_body
    page,         \* find_existing_comment's page
    existing,     \* main's existing: <<>> is None, <<c>> is the comment c
    requests,     \* the requests this invocation sent, with their status
    outcome,      \* how the invocation ended
    runs,         \* number of invocations finished so far
    onlyNamed,    \* every invocation so far: name TrackedName, mode upsert/update
    allOk,        \* every remote call so far succeeded
    \* ---- sarif_report.py ----
    files,        \* what glob.glob matched, in order
    fidx,         \* index of the next matched file main's loop looks at
    rows,         \* main's rows before dedupe_rows
    deduped,      \* main's rows after dedupe_rows
    report,       \* what html_fragment_report displays; written to the output
    spc           \* position of the sarif_report invocation

cvars == <<comments, nextId, before, pc, args, pr_number, final_body, page, existing,
           requests, outcome, runs, onlyNamed, allOk>>
svars == <<files, fidx, rows, deduped, report, spc>>
vars == <<cvars, svars>>

Min(a, b) == IF a < b THEN a ELSE b

----------------------------------------------------------------------------
(* comment_pr.py                                                           *)

MARKER_PREFIX == "<!-- pr-comment:"
MARKER_SUFFIX == " -->"
per_page == 100

\* bounds
MaxRuns == 3

TrackedName == "plan"
Names == {TrackedName, "lint"}
Modes == {"upsert", "update", "create"}

marker_for(name) == MARKER_PREFIX \o name \o MARKER_SUFFIX

\* mutant: the marker is left out of the body
build_body_NoMarker(name, content) == content \o <<"\n">>

build_body(name, content) == <<marker_for(name), "\n">> \o content \o <<"\n">>

\* `marker in body`
Contains(body, marker) == \E i \in 1..Len(body) : body[i] = marker

Whitespace == {" ", "\n"}

RECURSIVE lstrip(_)
lstrip(s) == IF s # <<>> /\ Head(s) \in Whitespace THEN lstrip(Tail(s)) ELSE s

RECURSIVE rstrip(_)
rstrip(s) ==
    IF s # <<>> /\ s[Len(s)] \in Whitespace
    THEN rstrip(SubSeq(s, 1, Len(s) - 1)) ELSE s

\* str.strip()
strip(s) == rstrip(lstrip(s))

read_body(body, body_file, file_text) ==
    IF body_file # "" THEN file_text ELSE body

\* int(): <<n>> for a decimal literal, <<>> where int() raises ValueError
int(s) ==
    IF s = <<"7">> THEN <<7>>
    ELSE IF s = <<"0">> THEN <<0>>
    ELSE <<>>

\* derive_pr_number: the event is the parsed payload, its pull_request.number
\* is absent, an int, or a value of another type
derive_pr_number(event) ==
    IF event.has_pr /\ event.number_is_int THEN <<event.number>> ELSE <<>>

\* `not pr_number`
Falsy(pr) == pr = <<>> \/ pr[1] = 0

\* parse_repo fails unless GITHUB_REPOSITORY contains a "/"
parse_repo_ok(repo) == Contains(repo, "/")

\* ---- inputs ----
Bodies == {<<>>, <<" ", "hello", "\n">>}
BodyFiles == {"", "body.md"}
FileTexts == {<<" ", "\n">>, <<"report", marker_for(TrackedName)>>}
PrArgs == {<<>>, <<" ", "7">>, <<"0">>, <<"x">>}
Events == {[has_pr |-> FALSE, number_is_int |-> FALSE, number |-> 0],
           [has_pr |-> TRUE, number_is_int |-> TRUE, number |-> 7],
           [has_pr |-> TRUE, number_is_int |-> FALSE, number |-> 0]}
Repos == {<<"amcaughan", "/", "shared_workflows">>, <<>>}

ArgSet == [comment_name : Names, body : Bodies, body_file : BodyFiles,
           file_text : FileTexts, pr_number : PrArgs, event : Events,
           mode : Modes, repo : Repos]

NoArgs == [comment_name |-> "", body |-> <<>>, body_file |-> "",
           file_text |-> <<>>, pr_number |-> <<>>,
           event |-> [has_pr |-> FALSE, number_is_int |-> FALSE, number |-> 0],
           mode |-> "", repo |-> <<>>]

\* the comments other people left on the pull request
OtherComment(i) == [id |-> i, body |-> <<"lgtm">>, user |-> "human"]
OtherCounts == {0, per_page - 1, per_page}

\* the remote's answer to GET .../comments?per_page=..&page=..
PageOf(store, p) ==
    SubSeq(store, (p - 1) * per_page + 1, Min(p * per_page, Len(store)))

\* the loop body of find_existing_comment over one payload:
\* index of the first comment whose body contains the marker, 0 if none
FirstMarked(payload, marker) ==
    IF \E i \in 1..Len(payload) : Contains(payload[i].body, marker)
    THEN CHOOSE i \in 1..Len(payload) :
            /\ Contains(payload[i].body, marker)
            /\ \A j \in 1..(i - 1) : ~Contains(payload[j].body, marker)
    ELSE 0

\* mutant: a full page is taken for the last one
LastPage_OffByOne(payload) == Len(payload) <= per_page

\* `len(payload) < per_page`: the listing has no further page
LastPage(payload) == Len(payload) < per_page

Req(method, status, id) == [method |-> method, status |-> status, id |-> id]

CInit ==
    /\ comments \in {[i \in 1..n |-> OtherComment(i)] : n \in OtherCounts}
    /\ nextId = per_page + 1
    /\ before = <<>>
    /\ pc = "idle"
    /\ args = NoArgs
    /\ pr_number = <<>>
    /\ final_body = <<>>
    /\ page = 1
    /\ existing = <<>>
    /\ requests = <<>>
    /\ outcome = "running"
    /\ runs = 0
    /\ onlyNamed = TRUE
    /\ allOk = TRUE

\* main, lines 100-126: argument handling up to the first remote call
ContentOf(a) == strip(read_body(a.body, a.body_file, a.file_text))

PrOf(a) ==
    IF strip(a.pr_number) # <<>> THEN int(strip(a.pr_number))
    ELSE derive_pr_number(a.event)

StartOutcome(a) ==
    IF ContentOf(a) = <<>> THEN "exit: empty body"
    ELSE IF strip(a.pr_number) # <<>> /\ int(strip(a.pr_number)) = <<>>
         THEN "raise: ValueError"
    ELSE IF Falsy(PrOf(a)) THEN "exit: no PR number"
    ELSE IF ~parse_repo_ok(a.repo) THEN "exit: GITHUB_REPOSITORY"
    ELSE "running"

Start ==
    /\ pc = "idle"
    /\ \E a \in ArgSet :
        /\ args' = a
        /\ outcome' = StartOutcome(a)
        /\ onlyNamed' = (onlyNamed /\ a.comment_name = TrackedName
                                   /\ a.mode \in {"upsert", "update"})
        /\ IF StartOutcome(a) = "running"
           THEN /\ pr_number' = PrOf(a)
                /\ final_body' = build_body(a.comment_name, ContentOf(a))
                /\ pc' = "list"
           ELSE /\ pc' = "done"
                /\ UNCHANGED <<pr_number, final_body>>
    /\ page' = 1
    /\ before' = comments
    /\ UNCHANGED <<comments, nextId, existing, requests, runs, allOk, svars>>

\* find_existing_comment, one iteration of `while True` with a 200 list payload
ListOk ==
    /\ pc = "list"
    /\ LET payload == PageOf(comments, page)
           k == FirstMarked(payload, marker_for(args.comment_name))
       IN /\ requests' = Append(requests, Req("GET", 200, 0))
          /\ IF k # 0
             THEN /\ existing' = <<payload[k]>>
                  /\ pc' = "write"
                  /\ page' = page
             ELSE IF LastPage(payload)
             THEN /\ existing' = <<>>
                  /\ pc' = "write"
                  /\ page' = page
             ELSE /\ existing' = existing
                  /\ pc' = "list"
                  /\ page' = page + 1
    /\ UNCHANGED <<comments, nextId, before, args, pr_number, final_body, outcome,
                   runs, onlyNamed, allOk, svars>>

\* find_existing_comment, listing fails: non-200 status, a payload that is not
\* a list, or api_request re-raising a transport error (status 0)
ListFail ==
    /\ pc = "list"
    /\ \E r \in {"status", "payload", "raise"} :
        /\ requests' = Append(requests,
               Req("GET", CASE r = "status" -> 500
                            [] r = "payload" -> 200
                            [] r = "raise" -> 0, 0))
        /\ outcome' = CASE r = "status" -> "exit: list status"
                        [] r = "payload" -> "exit: list payload"
                        [] r = "raise" -> "raise: request"
    /\ pc' = "done"
    /\ allOk' = FALSE
    /\ UNCHANGED <<comments, nextId, before, args, pr_number, final_body, page,
                   existing, runs, onlyNamed, svars>>

\* the remote's statuses for the write requests; 0 is a transport error
PostStatuses == {201, 403, 0}
PatchStatuses == {200, 404, 0}

\* mutant: the status of the PATCH is not looked at
WriteOutcome_PatchUnchecked(method, status) ==
    IF status = 0 THEN "raise: request"
    ELSE IF method = "POST" /\ status # 201 THEN "exit: create status"
    ELSE "ok"

WriteOutcome(method, status) ==
    IF status = 0 THEN "raise: request"
    ELSE IF method = "POST" /\ status # 201 THEN "exit: create status"
    ELSE IF method = "PATCH" /\ status # 200 THEN "exit: update status"
    ELSE "ok"

\* the remote creates the comment when it answers 201
Post(status) ==
    /\ requests' = Append(requests, Req("POST", status, 0))
    /\ outcome' = WriteOutcome("POST", status)
    /\ IF status = 201
       THEN /\ comments' = Append(comments,
                   [id |-> nextId, body |-> final_body, user |-> "tool"])
            /\ nextId' = nextId + 1
       ELSE UNCHANGED <<comments, nextId>>
    /\ allOk' = (allOk /\ status = 201)

\* the remote replaces the body of the comment when it answers 200
Patch(status, id) ==
    /\ requests' = Append(requests, Req("PATCH", status, id))
    /\ outcome' = WriteOutcome("PATCH", status)
    /\ IF status = 200
       THEN comments' = [i \in 1..Len(comments) |->
                IF comments[i].id = id
                THEN [comments[i] EXCEPT !.body = final_body]
                ELSE comments[i]]
       ELSE comments' = comments
    /\ nextId' = nextId
    /\ allOk' = (allOk /\ status = 200)

\* main, lines 130-136
CreateMode ==
    /\ pc = "write"
    /\ args.mode = "create"
    /\ \E s \in PostStatuses : Post(s)
    /\ pc' = "done"
    /\ UNCHANGED <<before, args, pr_number, final_body, page, existing, runs,
                   onlyNamed, svars>>

\* main, lines 138-146
PatchExisting ==
    /\ pc = "write"
    /\ args.mode # "create"
    /\ existing # <<>>
    /\ args.mode \in {"upsert", "update"}
    /\ \E s \in PatchStatuses : Patch(s, existing[1].id)
    /\ pc' = "done"
    /\ UNCHANGED <<before, args, pr_number, final_body, page, existing, runs,
                   onlyNamed, svars>>

\* mutant: mode=update without a marked comment falls through to the create
NothingToDo_FallsThrough ==
    /\ pc = "write"
    /\ args.mode # "create"
    /\ existing = <<>>
    /\ args.mode = "update"
    /\ \E s \in PostStatuses : Post(s)
    /\ pc' = "done"
    /\ UNCHANGED <<before, args, pr_number, final_body, page, existing, runs,
                   onlyNamed, svars>>

\* main, lines 147-150
NothingToDo ==
    /\ pc = "write"
    /\ args.mode # "create"
    /\ existing = <<>>
    /\ args.mode = "update"
    /\ outcome' = "ok"
    /\ pc' = "done"
    /\ UNCHANGED <<comments, nextId, before, args, pr_number, final_body, page,
                   existing, requests, runs, onlyNamed, allOk, svars>>

\* main, lines 151-157
UpsertCreate ==
    /\ pc = "write"
    /\ args.mode # "create"
    /\ existing = <<>>
    /\ args.mode # "update"
    /\ \E s \in PostStatuses : Post(s)
    /\ pc' = "done"
    /\ UNCHANGED <<before, args, pr_number, final_body, page, existing, runs,
                   onlyNamed, svars>>

\* the process exits; the workflow may run the action again
NextRun ==
    /\ pc = "done"
    /\ runs + 1 < MaxRuns
    /\ runs' = runs + 1
    /\ pc' = "idle"
    /\ args' = NoArgs
    /\ pr_number' = <<>>
    /\ final_body' = <<>>
    /\ page' = 1
    /\ existing' = <<>>
    /\ requests' = <<>>
    /\ outcome' = "running"
    /\ before' = <<>>
    /\ UNCHANGED <<comments, nextId, onlyNamed, allOk, svars>>

CNext ==
    \/ Start
    \/ ListOk
    \/ ListFail
    \/ CreateMode
    \/ PatchExisting
    \/ NothingToDo
    \/ UpsertCreate
    \/ NextRun

----------------------------------------------------------------------------
(* Properties of comment_pr.py                                             *)

\* the text main reads as the body, and whether anything is left of it
\* after trimming
GivenText == IF args.body_file # "" THEN args.file_text ELSE args.body
BodyNonEmpty == \E i \in 1..Len(GivenText) : GivenText[i] \notin Whitespace

\* the pull request number --pr-number gives, and the one the event gives
PrArgGiven == \E i \in 1..Len(args.pr_number) : args.pr_number[i] \notin Whitespace
PrArgUsable == \E i \in 1..Len(args.pr_number) : args.pr_number[i] = "7"
EventUsable ==
    args.event.has_pr /\ args.event.number_is_int /\ args.event.number # 0
PrDeterminable == IF PrArgGiven THEN PrArgUsable ELSE EventUsable
PrUndeterminable == ~PrArgUsable /\ ~EventUsable

Invoked == pc = "done" /\ args # NoArgs

HasMarked(store, name) ==
    \E i \in 1..Len(store) : Contains(store[i].body, marker_for(name))

MarkedCount(store, name) ==
    Cardinality({i \in 1..Len(store) : Contains(store[i].body, marker_for(name))})

\* id of the first comment of the listing that carries the marker
FirstMarkedId(store, name) ==
    LET S == {i \in 1..Len(store) : Contains(store[i].body, marker_for(name))}
    IN store[CHOOSE i \in S : \A j \in S : i <= j].id

IsWrite(r) == r.method \in {"POST", "PATCH"}
Writes == SelectSeq(requests, IsWrite)
IsGet(r) == r.method = "GET"
Gets == SelectSeq(requests, IsGet)

\* every page of the listing was answered with status 200 and a list
ListingSucceeded ==
    /\ pc \in {"write", "done"}
    /\ Gets # <<>>
    /\ \A i \in 1..Len(Gets) : Gets[i].status = 200
    /\ outcome # "exit: list payload"

\* C1: mode=update, body non-empty, PR number determinable, the listing
\* succeeded and no comment carries the marker of comment_name: the invocation
\* returns 0 and has sent neither a POST nor a PATCH.
C1_UpdateWithoutMarkedWritesNothing ==
    (/\ Invoked
     /\ args.mode = "update"
     /\ BodyNonEmpty /\ PrDeterminable
     /\ ListingSucceeded
     /\ ~HasMarked(before, args.comment_name))
    => (outcome = "ok" /\ Writes = <<>> /\ comments = before)

\* C1 witness: an update that paged through a full first page, found no
\* marked comment and returned 0 without writing
C1_Witness ==
    /\ Invoked
    /\ args.mode = "update"
    /\ Len(Gets) = 2
    /\ ~HasMarked(before, args.comment_name)
    /\ outcome = "ok"
    /\ Writes = <<>>

\* what C2 says the single write request of an upsert is
UpsertWriteAsClaimed ==
    /\ Len(Writes) = 1
    /\ IF HasMarked(before, args.comment_name)
       THEN /\ Writes[1].method = "PATCH"
            /\ Writes[1].id = FirstMarkedId(before, args.comment_name)
       ELSE Writes[1].method = "POST"

\* C2 as stated: every upsert with a non-empty body and a determinable PR
\* number sends exactly one write request, a PATCH of the marked comment when
\* there is one and a POST otherwise.
C2_Original ==
    (/\ Invoked
     /\ args.mode = "upsert"
     /\ BodyNonEmpty /\ PrDeterminable
     /\ parse_repo_ok(args.repo))
    => UpsertWriteAsClaimed

\* C2 amended: an upsert with a non-empty body and a determinable PR number
\* whose listing succeeded sends exactly one write request: a PATCH of the
\* first comment carrying the marker when some comment carries it, a POST
\* otherwise.
C2_UpsertOneWriteAfterListing ==
    (/\ Invoked
     /\ args.mode = "upsert"
     /\ BodyNonEmpty /\ PrDeterminable
     /\ ListingSucceeded)
    => UpsertWriteAsClaimed

\* C2 witness: an upsert that found the marked comment on the second page and
\* patched it
C2_Witness ==
    /\ Invoked
    /\ args.mode = "upsert"
    /\ Len(Gets) = 2
    /\ HasMarked(before, args.comment_name)
    /\ Len(Writes) = 1
    /\ Writes[1].method = "PATCH"
    /\ Writes[1].status = 200

\* C3: every create with a non-empty body and a determinable PR number sends
\* a POST, whatever the comments and whatever the remote answered before it,
\* and never a PATCH.
C3_CreateAlwaysPosts ==
    (/\ Invoked
     /\ args.mode = "create"
     /\ BodyNonEmpty /\ PrDeterminable
     /\ parse_repo_ok(args.repo))
    => (/\ \E i \in 1..Len(requests) : requests[i].method = "POST"
        /\ \A i \in 1..Len(requests) : requests[i].method # "PATCH")

ExitOutcomes == {"exit: empty body", "exit: no PR number",
                 "exit: GITHUB_REPOSITORY", "exit: list status",
                 "exit: list payload", "exit: create status",
                 "exit: update status"}
RaiseOutcomes == {"raise: ValueError", "raise: request"}

\* C4: a finished invocation has failed whenever the body is empty after
\* trimming, or the PR number comes from neither --pr-number nor the event, or
\* the remote answered a request with a non-success status; it returns 0 only
\* when none of these is the case.
C4_FailureCases ==
    Invoked =>
        /\ outcome \in ExitOutcomes \cup RaiseOutcomes \cup {"ok"}
        /\ ~BodyNonEmpty => outcome = "exit: empty body"
        /\ (BodyNonEmpty /\ PrUndeterminable)
              => outcome \in {"exit: no PR number", "raise: ValueError"}
        /\ (\E i \in 1..Len(requests) : requests[i].status >= 300)
              => outcome \in {"exit: list status", "exit: create status",
                              "exit: update status"}
        /\ outcome = "ok" =>
              /\ BodyNonEmpty
              /\ ~PrUndeterminable
              /\ \A i \in 1..Len(requests) : requests[i].status \in 200..299

\* C4 witness: the PATCH of the marked comment is answered 404 and the
\* invocation ends in SystemExit
C4_Witness ==
    /\ Invoked
    /\ Writes # <<>>
    /\ Writes[1].method = "PATCH"
    /\ Writes[1].status = 404
    /\ outcome = "exit: update status"

\* C10: while every invocation so far used the tracked comment name with mode
\* upsert or update and every remote call succeeded, at most one comment
\* carries the marker of that name and every comment the tool wrote carries it.
C10_AtMostOneMarked ==
    (onlyNamed /\ allOk) =>
        /\ MarkedCount(comments, TrackedName) <= 1
        /\ \A i \in 1..Len(comments) :
              comments[i].user = "tool"
                  => Contains(comments[i].body, marker_for(TrackedName))

\* C10 witness: a second invocation has patched the comment the first one
\* created behind a full page of other comments
C10_Witness ==
    /\ onlyNamed /\ allOk
    /\ runs >= 1
    /\ Invoked
    /\ Len(comments) > per_page
    /\ MarkedCount(comments, TrackedName) = 1
    /\ Writes # <<>>
    /\ Writes[1].method = "PATCH"
    /\ Writes[1].status = 200

----------------------------------------------------------------------------
(* sarif_report.py                                                         *)

SEV_ORDER == <<"error", "warning", "note", "none">>

\* bounds
MaxFiles == 2

\* concatenation of a sequence of strings
RECURSIVE Join(_)
Join(s) == IF s = <<>> THEN "" ELSE Head(s) \o Join(Tail(s))

\* "sep".join(parts)
RECURSIVE JoinWith(_, _)
JoinWith(parts, sep) ==
    IF parts = <<>> THEN ""
    ELSE IF Len(parts) = 1 THEN parts[1]
    ELSE parts[1] \o sep \o JoinWith(Tail(parts), sep)

UpperChars == <<"A", "B", "C", "D", "E", "F", "G", "H", "I", "J", "K", "L", "M",
                "N", "O", "P", "Q", "R", "S", "T", "U", "V", "W", "X", "Y", "Z">>
LowerChars == <<"a", "b", "c", "d", "e", "f", "g", "h", "i", "j", "k", "l", "m",
                "n", "o", "p", "q", "r", "s", "t", "u", "v", "w", "x", "y", "z">>

LowerChar(c) ==
    IF \E i \in 1..Len(UpperChars) : UpperChars[i] = c
    THEN LowerChars[CHOOSE i \in 1..Len(UpperChars) : UpperChars[i] = c]
    ELSE c

\* str.lower() of a string given as its characters
lower(chars) == Join([i \in 1..Len(chars) |-> LowerChar(chars[i])])

\* mutant: "info" is not mapped to "note"
_norm_level_NoInfo(has_level, level) ==
    IF ~has_level \/ level = <<>> THEN "warning"
    ELSE IF lower(level) \notin {"none", "note", "warning", "error"} THEN "warning"
    ELSE lower(level)

\* _norm_level: level is res.get("level"), None when has_level is FALSE
_norm_level(has_level, level) ==
    IF ~has_level \/ level = <<>> THEN "warning"
    ELSE IF lower(level) = "info" THEN "note"
    ELSE IF lower(level) \notin {"none", "note", "warning", "error"} THEN "warning"
    ELSE lower(level)

\* _tool_name: name is "" when tool.driver.name is missing
_tool_name(run) == IF run.tool_name # "" THEN run.tool_name ELSE "tool"

\* a fingerprint mapping is a sequence of <<key, value>> in document order
HasKey(d, k) == \E i \in 1..Len(d) : d[i][1] = k
Lookup(d, k) == d[CHOOSE i \in 1..Len(d) : d[i][1] = k][2]

\* the keys fingerprint mappings use, in sorted() order
FpKeyOrder == <<"a", "x">>

\* sorted(d)
SortedKeys(d) == SelectSeq(FpKeyOrder, LAMBDA k : HasKey(d, k))

\* "|".join(f"{x}={d[x]}" for x in sorted(d))
FpItems(d) ==
    LET ks == SortedKeys(d)
    IN JoinWith([i \in 1..Len(ks) |-> ks[i] \o "=" \o Lookup(d, ks[i])], "|")

_best_fingerprint(res) ==
    IF res.correlationGuid # "" THEN "cg:" \o res.correlationGuid
    ELSE IF res.fingerprints # <<>>
         THEN "fingerprints:" \o FpItems(res.fingerprints)
    ELSE IF res.partialFingerprints # <<>>
         THEN "partialFingerprints:" \o FpItems(res.partialFingerprints)
    ELSE ""

\* environment of the runner
WORKSPACE == <<"/", "home", "/", "runner", "/", "work", "/", "shared_workflows",
               "/", "shared_workflows">>
REPO == "shared_workflows"

StartsWith(s, prefix) ==
    Len(s) >= Len(prefix) /\ SubSeq(s, 1, Len(prefix)) = prefix

RECURSIVE StripLeadingSlashes(_)
StripLeadingSlashes(u) ==
    IF u # <<>> /\ Head(u) = "/" THEN StripLeadingSlashes(Tail(u)) ELSE u

\* uri.split(f"/{repo}/", 1)[1] when the marker occurs in uri
AfterRepoMarker(u) ==
    LET S == {i \in 1..(Len(u) - 2) :
                 u[i] = "/" /\ u[i + 1] = REPO /\ u[i + 2] = "/"}
    IN IF S = {} THEN u
       ELSE SubSeq(u, (CHOOSE i \in S : \A j \in S : i <= j) + 3, Len(u))

\* _normalize_artifact_uri, over the uri cut into "file://", "/", "\\" and names
_normalize_artifact_uri(uri) ==
    IF uri = <<>> THEN ""
    ELSE LET u1 == IF Head(uri) = "file://" THEN Tail(uri) ELSE uri
             u2 == [i \in 1..Len(u1) |-> IF u1[i] = "\\" THEN "/" ELSE u1[i]]
             u3 == IF WORKSPACE # <<>> /\ StartsWith(u2, WORKSPACE \o <<"/">>)
                   THEN SubSeq(u2, Len(WORKSPACE) + 2, Len(u2)) ELSE u2
             u4 == AfterRepoMarker(u3)
         IN Join(StripLeadingSlashes(u4))

\* _extract_location: <<path, line, region>>; startLine and endLine are <<>>
\* unless they are ints; line is <<>> for None
_extract_location(res) ==
    IF ~res.has_location THEN <<"", <<>>, "">>
    ELSE LET sl == res.startLine
             el == res.endLine
             region_s == IF sl # <<>>
                         THEN IF el = <<>> \/ el = sl
                              THEN "L" \o ToString(sl[1])
                              ELSE "L" \o ToString(sl[1]) \o "-L" \o ToString(el[1])
                         ELSE ""
         IN <<_normalize_artifact_uri(res.uri), sl, region_s>>

\* str(line) if line else "", also `line or ''` inside an f-string
LineText(line) == IF line # <<>> /\ line[1] # 0 THEN ToString(line[1]) ELSE ""

\* mutant: the fallback key leaves the level out
RowOf_KeyWithoutLevel(run, res) ==
    LET tool == _tool_name(run)
        level == _norm_level(res.has_level, res.level)
        rule == res.ruleId
        loc == _extract_location(res)
        fp == _best_fingerprint(res)
        dedupe == IF fp # ""
                  THEN tool \o "|" \o rule \o "|" \o fp
                  ELSE tool \o "|" \o rule \o "|" \o loc[1] \o "|"
                       \o LineText(loc[2])
    IN [tool |-> tool, level |-> level, rule |-> rule, path |-> loc[1],
        line |-> LineText(loc[2]), region |-> loc[3], dedupe_key |-> dedupe]

\* sarif_to_rows, the body of the inner loop: the row of one result of a run
RowOf(run, res) ==
    LET tool == _tool_name(run)
        level == _norm_level(res.has_level, res.level)
        rule == res.ruleId
        loc == _extract_location(res)
        fp == _best_fingerprint(res)
        dedupe == IF fp # ""
                  THEN tool \o "|" \o rule \o "|" \o fp
                  ELSE tool \o "|" \o rule \o "|" \o loc[1] \o "|"
                       \o LineText(loc[2]) \o "|" \o level
    IN [tool |-> tool, level |-> level, rule |-> rule, path |-> loc[1],
        line |-> LineText(loc[2]), region |-> loc[3], dedupe_key |-> dedupe]

RowsOfRun(run) == [i \in 1..Len(run.results) |-> RowOf(run, run.results[i])]

\* sarif_to_rows after _read_json succeeded: the rows of all runs, in order
RECURSIVE RowsOfRuns(_)
RowsOfRuns(rs) ==
    IF rs = <<>> THEN <<>> ELSE RowsOfRun(Head(rs)) \o RowsOfRuns(Tail(rs))

sarif_to_rows(file) == RowsOfRuns(file.runs)

\* dedupe_rows, the loop from row i on with the set seen and the list out
RECURSIVE dedupe_loop(_, _, _, _)
dedupe_loop(rs, i, seen, out) ==
    IF i > Len(rs) THEN out
    ELSE IF rs[i].dedupe_key \in seen THEN dedupe_loop(rs, i + 1, seen, out)
    ELSE dedupe_loop(rs, i + 1, seen \cup {rs[i].dedupe_key}, Append(out, rs[i]))

\* mutant: the last row of a key is kept instead of the first
RECURSIVE keep_last(_, _)
keep_last(rs, i) ==
    IF i > Len(rs) THEN <<>>
    ELSE (IF \E j \in (i + 1)..Len(rs) : rs[j].dedupe_key = rs[i].dedupe_key
          THEN <<>> ELSE <<rs[i]>>) \o keep_last(rs, i + 1)

dedupe_rows_KeepLast(rs) == keep_last(rs, 1)

dedupe_rows(rs) == dedupe_loop(rs, 1, {}, <<>>)

\* Counter(r["level"] for r in rows).get(sev, 0)
CountLevel(rs, sev) == Cardinality({i \in 1..Len(rs) : rs[i].level = sev})

\* the tool names of the inputs, in sorted() order
ToolOrder == <<"semgrep", "tool">>

\* grouped[tool]: the rows of a tool, in order
RowsOfTool(rs, tool) == SelectSeq(rs, LAMBDA r : r.tool = tool)

\* the severity sections of a tool: one per non-empty group, in SEV_ORDER
ToolGroups(trows) ==
    LET sevs == SelectSeq(SEV_ORDER, LAMBDA sev : CountLevel(trows, sev) > 0)
    IN [k \in 1..Len(sevs) |-> [sev |-> sevs[k], len |-> CountLevel(trows, sevs[k])]]

\* one <details> block of a tool: the counts its summary line shows and its
\* severity sections
ToolBlock(rs, tool) ==
    LET trows == RowsOfTool(rs, tool)
    IN [tool |-> tool,
        error |-> CountLevel(trows, "error"),
        warning |-> CountLevel(trows, "warning"),
        note |-> CountLevel(trows, "note"),
        groups |-> ToolGroups(trows)]

\* html_fragment_report: the numbers the fragment displays
html_fragment_report(rs) ==
    LET tools == SelectSeq(ToolOrder, LAMBDA t : \E i \in 1..Len(rs) : rs[i].tool = t)
    IN [error |-> CountLevel(rs, "error"),
        warning |-> CountLevel(rs, "warning"),
        note |-> CountLevel(rs, "note"),
        total |-> Len(rs),
        tools |-> [k \in 1..Len(tools) |-> ToolBlock(rs, tools[k])]]

\* ---- inputs ----
Chars(w) ==
    CASE w = "error" -> <<"e", "r", "r", "o", "r">>
      [] w = "ERROR" -> <<"E", "R", "R", "O", "R">>
      [] w = "Warning" -> <<"W", "a", "r", "n", "i", "n", "g">>
      [] w = "warning" -> <<"w", "a", "r", "n", "i", "n", "g">>
      [] w = "note" -> <<"n", "o", "t", "e">>
      [] w = "info" -> <<"i", "n", "f", "o">>
      [] w = "INFO" -> <<"I", "N", "F", "O">>
      [] w = "none" -> <<"n", "o", "n", "e">>
      [] w = "critical" -> <<"c", "r", "i", "t", "i", "c", "a", "l">>
      [] w = "" -> <<>>

Level(w) == [has_level |-> TRUE, level |-> Chars(w)]
NoLevel == [has_level |-> FALSE, level |-> <<>>]
RawLevels == {NoLevel} \cup {Level(w) : w \in {"", "error", "ERROR", "Warning",
                 "warning", "note", "info", "INFO", "none", "critical"}}

NoLocation == [has_location |-> FALSE, uri |-> <<>>, startLine |-> <<>>,
               endLine |-> <<>>]
Locations ==
    {NoLocation,
     [has_location |-> TRUE, uri |-> <<"src", "\\", "a.py">>,
      startLine |-> <<3>>, endLine |-> <<>>],
     [has_location |-> TRUE,
      uri |-> <<"file://">> \o WORKSPACE \o <<"/", "src", "/", "a.py">>,
      startLine |-> <<3>>, endLine |-> <<5>>]}

\* correlationGuid, fingerprints, partialFingerprints of a result
NoMarks == [correlationGuid |-> "", fingerprints |-> <<>>,
            partialFingerprints |-> <<>>]
Marks ==
    {NoMarks,
     [NoMarks EXCEPT !.correlationGuid = "g-1"],
     [NoMarks EXCEPT !.fingerprints = <<<<"x", "1">>>>],
     [NoMarks EXCEPT !.partialFingerprints = <<<<"x", "1">>, <<"a", "2">>>>],
     [NoMarks EXCEPT !.fingerprints = <<<<"x", "1">>>>,
                     !.partialFingerprints = <<<<"x", "9">>>>]}

Result(lv, rule, loc, mk) ==
    [has_level |-> lv.has_level, level |-> lv.level, ruleId |-> rule,
     has_location |-> loc.has_location, uri |-> loc.uri,
     startLine |-> loc.startLine, endLine |-> loc.endLine,
     correlationGuid |-> mk.correlationGuid, fingerprints |-> mk.fingerprints,
     partialFingerprints |-> mk.partialFingerprints]

Run(tool, results) == [tool_name |-> tool, results |-> results]
SarifFile(rs) == [kind |-> "sarif", runs |-> rs]
OtherFile(kind) == [kind |-> kind, runs |-> <<>>]

\* matched paths that are no readable SARIF: a directory, a file that is not
\* JSON, a file that cannot be read
NonSarifFiles == {OtherFile("dir"), OtherFile("badjson"), OtherFile("unreadable")}

\* a file whose one run holds two results that differ in level only
PairFiles ==
    {SarifFile(<<Run(t, <<Result(l1, r, loc, mk), Result(l2, r, loc, mk)>>)>>) :
        t \in {"semgrep", ""}, l1 \in RawLevels, l2 \in RawLevels,
        r \in {"", "R1"}, loc \in Locations, mk \in Marks}

\* the results of the mixed files: a row of level none, and two results that
\* share a fingerprint and differ in level
MixedResults ==
    {Result(Level("none"), "R1", NoLocation, NoMarks),
     Result(Level("error"), "R1", NoLocation,
            [NoMarks EXCEPT !.fingerprints = <<<<"x", "1">>>>]),
     Result(Level("warning"), "R1", NoLocation,
            [NoMarks EXCEPT !.fingerprints = <<<<"x", "1">>>>])}

MixedResultSeqs ==
    {<<>>} \cup {<<a>> : a \in MixedResults}
           \cup {<<a, b>> : a \in MixedResults, b \in MixedResults}

MixedFiles ==
    {SarifFile(<<Run(t, rs)>>) : t \in {"semgrep", ""}, rs \in MixedResultSeqs}
    \cup {SarifFile(<<>>)}
    \cup {SarifFile(<<Run("semgrep", <<a>>), Run("", <<a>>)>>) : a \in MixedResults}
    \cup NonSarifFiles

FileLists(n) == UNION {[1..k -> MixedFiles] : k \in 0..n}

SInit ==
    /\ files \in FileLists(MaxFiles)
                 \cup {<<f>> \o tail : f \in PairFiles,
                                      tail \in {<<>>, <<OtherFile("dir")>>}}
    /\ fidx = 1
    /\ rows = <<>>
    /\ deduped = <<>>
    /\ report = <<>>
    /\ spc = "read"

\* main, line 270: a matched path that is no file is passed over
SkipNonFile ==
    /\ spc = "read"
    /\ fidx <= Len(files)
    /\ files[fidx].kind = "dir"
    /\ fidx' = fidx + 1
    /\ UNCHANGED <<files, rows, deduped, report, spc, cvars>>

\* mutant: a file that does not parse is passed over
ReadAbort_Skips ==
    /\ spc = "read"
    /\ fidx <= Len(files)
    /\ files[fidx].kind \in {"badjson", "unreadable"}
    /\ fidx' = fidx + 1
    /\ UNCHANGED <<files, rows, deduped, report, spc, cvars>>

\* main, line 271, _read_json raises: the exception leaves main
ReadAbort ==
    /\ spc = "read"
    /\ fidx <= Len(files)
    /\ files[fidx].kind \in {"badjson", "unreadable"}
    /\ spc' = "aborted"
    /\ UNCHANGED <<files, fidx, rows, deduped, report, cvars>>

\* main, line 271: rows.extend(sarif_to_rows(p))
ReadFile ==
    /\ spc = "read"
    /\ fidx <= Len(files)
    /\ files[fidx].kind = "sarif"
    /\ rows' = rows \o sarif_to_rows(files[fidx])
    /\ fidx' = fidx + 1
    /\ UNCHANGED <<files, deduped, report, spc, cvars>>

\* main, lines 273-279: dedupe, then write the fragment to the output file
WriteReport ==
    /\ spc = "read"
    /\ fidx > Len(files)
    /\ deduped' = dedupe_rows(rows)
    /\ report' = <<html_fragment_report(dedupe_rows(rows))>>
    /\ spc' = "written"
    /\ UNCHANGED <<files, fidx, rows, cvars>>

SNext ==
    \/ SkipNonFile
    \/ ReadAbort
    \/ ReadFile
    \/ WriteReport

----------------------------------------------------------------------------
(* Properties of sarif_report.py                                           *)

\* the results of the runs of a file, in document order
RECURSIVE ResultsOfRuns(_)
ResultsOfRuns(rs) ==
    IF rs = <<>> THEN <<>> ELSE Head(rs).results \o ResultsOfRuns(Tail(rs))

\* the results of the first n matched files
RECURSIVE ResultsOfFiles(_)
ResultsOfFiles(n) ==
    IF n = 0 THEN <<>>
    ELSE ResultsOfFiles(n - 1) \o ResultsOfRuns(files[n].runs)

ResultsRead == ResultsOfFiles(fidx - 1)

\* the indices of the rows that are the first of their dedupe_key
FirstOfKey ==
    {i \in 1..Len(rows) :
        \A j \in 1..(i - 1) : rows[j].dedupe_key # rows[i].dedupe_key}

\* C5: the output of dedupe_rows holds, in input order, exactly the rows that
\* are the first of their dedupe_key in the input; no two of its rows share
\* a dedupe_key.
C5_DedupeKeepsFirst ==
    spc = "written" =>
        /\ Len(deduped) = Cardinality(FirstOfKey)
        /\ \A i \in FirstOfKey :
              deduped[Cardinality({j \in FirstOfKey : j <= i})] = rows[i]
        /\ \A a, b \in 1..Len(deduped) :
              a # b => deduped[a].dedupe_key # deduped[b].dedupe_key

\* C5 witness: a row is dropped because an earlier, different row has its key,
\* and a row of another key stands between the two
C5_Witness ==
    /\ spc = "written"
    /\ Len(rows) >= 3
    /\ \E i, j, k \in 1..Len(rows) :
          /\ i < j /\ j < k
          /\ rows[i].dedupe_key = rows[k].dedupe_key
          /\ rows[i] # rows[k]
          /\ rows[j].dedupe_key # rows[i].dedupe_key
    /\ Len(deduped) < Len(rows)

\* the level the specification gives a result: by the spelling of its level,
\* letter case ignored
Spelled(chars, word) ==
    /\ Len(chars) = Len(word)
    /\ \A i \in 1..Len(word) :
          \E k \in 1..Len(LowerChars) :
              /\ LowerChars[k] = word[i]
              /\ chars[i] \in {LowerChars[k], UpperChars[k]}

ClaimedLevel(res) ==
    IF ~res.has_level \/ res.level = <<>> THEN "warning"
    ELSE IF Spelled(res.level, Chars("info")) THEN "note"
    ELSE IF Spelled(res.level, Chars("error")) THEN "error"
    ELSE IF Spelled(res.level, Chars("note")) THEN "note"
    ELSE IF Spelled(res.level, Chars("none")) THEN "none"
    ELSE "warning"

\* a matched file whose one run holds exactly two results, equal but for level
PairScenario ==
    /\ Len(files) >= 1
    /\ files[1].kind = "sarif"
    /\ Len(files[1].runs) = 1
    /\ Len(files[1].runs[1].results) = 2
    /\ LET a == files[1].runs[1].results[1]
           b == files[1].runs[1].results[2]
       IN /\ [a EXCEPT !.has_level = TRUE, !.level = <<>>]
               = [b EXCEPT !.has_level = TRUE, !.level = <<>>]
          /\ <<a.has_level, a.level>> # <<b.has_level, b.level>>
    /\ \A i \in 2..Len(files) : files[i].kind = "dir"

PairA == files[1].runs[1].results[1]
PairB == files[1].runs[1].results[2]

Unmarked(res) ==
    /\ res.correlationGuid = ""
    /\ res.fingerprints = <<>>
    /\ res.partialFingerprints = <<>>

\* what C6 says of two results that differ in level only
PairAsClaimed ==
    IF Unmarked(PairA)
    THEN /\ rows[1].dedupe_key # rows[2].dedupe_key
         /\ deduped = rows
    ELSE /\ rows[1].dedupe_key = rows[2].dedupe_key
         /\ deduped = <<rows[1]>>
         /\ deduped[1].level = ClaimedLevel(PairA)

\* C6 as stated, for two results that each carry a level: two results of one
\* tool, rule and location that differ in level only both survive when they
\* carry no correlationGuid and no fingerprints, and collapse to the first
\* when they carry the same ones.
C6_Original ==
    (/\ spc = "written"
     /\ PairScenario
     /\ PairA.has_level /\ PairA.level # <<>>
     /\ PairB.has_level /\ PairB.level # <<>>)
    => PairAsClaimed

\* C6 amended: the same, for the unmarked case only when the two levels also
\* differ after normalisation (a pair such as info/note, or absent/warning,
\* has one fallback key and collapses to the first).
C6_LevelInFallbackKeyOnly ==
    (/\ spc = "written"
     /\ PairScenario
     /\ (Unmarked(PairA) => ClaimedLevel(PairA) # ClaimedLevel(PairB)))
    => PairAsClaimed

\* C6 witness, unmarked: error and warning at one location both survive
C6_Witness ==
    /\ spc = "written"
    /\ PairScenario
    /\ Unmarked(PairA)
    /\ PairA.has_location
    /\ Len(deduped) = 2
    /\ deduped[1].level = "error"
    /\ deduped[2].level = "warning"

\* C6, marked case reached: same fingerprints, error then warning, one kept
C6_WitnessMarked ==
    /\ spc = "written"
    /\ PairScenario
    /\ PairA.fingerprints # <<>>
    /\ rows[1].level = "error" /\ rows[2].level = "warning"
    /\ deduped = <<rows[1]>>

\* what the fragment shows for a tool, and the findings the tool has
ShownForTool(b) == b.error + b.warning + b.note
FindingsOfTool(t) == Cardinality({i \in 1..Len(deduped) : deduped[i].tool = t})

RECURSIVE SumShown(_)
SumShown(blocks) ==
    IF blocks = <<>> THEN 0 ELSE ShownForTool(Head(blocks)) + SumShown(Tail(blocks))

\* C7: the per-severity counts of each tool's summary line sum to the number
\* of findings of the tool, and over all tools to the Total of the header,
\* which is the number of rows.
C7_CountsSumToTotals ==
    spc = "written" =>
        LET r == report[1]
        IN /\ r.total = Len(deduped)
           /\ \A k \in 1..Len(r.tools) :
                 ShownForTool(r.tools[k]) = FindingsOfTool(r.tools[k].tool)
           /\ SumShown(r.tools) = r.total

\* C8: every row has a level of the severity set, the one the rule of
\* normalisation gives for the level of its result.
C8_LevelNormalised ==
    /\ Len(rows) = Len(ResultsRead)
    /\ \A i \in 1..Len(rows) :
          /\ rows[i].level \in {"error", "warning", "note", "none"}
          /\ rows[i].level = ClaimedLevel(ResultsRead[i])

\* C8 witness: INFO became note and critical became warning
C8_Witness ==
    /\ Len(rows) = 2
    /\ Len(ResultsRead) = 2
    /\ ResultsRead[1].level = Chars("INFO") /\ rows[1].level = "note"
    /\ ResultsRead[2].level = Chars("critical") /\ rows[2].level = "warning"

BadFile(f) == f.kind \in {"badjson", "unreadable"}

\* C9: when a matched file is unreadable or no JSON the output file is never
\* written and the invocation has aborted once the loop reached that file; the
\* output is written only after every matched file was passed.
C9_AbortWithoutOutput ==
    /\ (\E i \in 1..Len(files) : BadFile(files[i]))
          => (report = <<>> /\ spc # "written")
    /\ (\E i \in 1..Len(files) : BadFile(files[i]) /\ i < fidx) => spc = "aborted"
    /\ spc = "aborted" => (fidx <= Len(files) /\ BadFile(files[fidx]))
    /\ report # <<>> =>
          /\ fidx = Len(files) + 1
          /\ Len(rows) = Len(ResultsRead)

\* C9 witness: the second matched file is no JSON, the first one gave rows,
\* and nothing was written
C9_Witness ==
    /\ spc = "aborted"
    /\ fidx = 2
    /\ rows # <<>>
    /\ files[2].kind = "badjson"
    /\ report = <<>>

----------------------------------------------------------------------------
\* a comment_pr invocation sequence, with sarif_report not started
CIdle ==
    /\ files = <<>>
    /\ fidx = 1
    /\ rows = <<>>
    /\ deduped = <<>>
    /\ report = <<>>
    /\ spc = "read"

\* a sarif_report invocation, with comment_pr not started
SIdle ==
    /\ comments = <<>>
    /\ nextId = 1
    /\ before = <<>>
    /\ pc = "idle"
    /\ args = NoArgs
    /\ pr_number = <<>>
    /\ final_body = <<>>
    /\ page = 1
    /\ existing = <<>>
    /\ requests = <<>>
    /\ outcome = "running"
    /\ runs = 0
    /\ onlyNamed = TRUE
    /\ allOk = TRUE

Init == CInit /\ CIdle
Next == CNext
Spec == Init /\ [][Next]_vars

SarifInit == SInit /\ SIdle
SarifNext == SNext
SarifSpec == SarifInit /\ [][SarifNext]_vars
====
